---- MODULE Spec2Model ----
(***************************************************************************)
(* rswc: a wc-style counter.  The model covers src/src/counter.rs:         *)
(*   count_reader        - the chunked single-pass scanner                 *)
(*   count_file /        - the per-path task and the parallel,             *)
(*   process_files         order-preserving map over the paths             *)
(*   print_files_results - column widths, rows, error lines, total row     *)
(*   print_stdin_results - the single "-" row                              *)
(* Three specifications share the variables: SpecReader (one stream fed    *)
(* to count_reader in arbitrary chunks), SpecFiles (process_files over a   *)
(* small file system) and SpecPrint (the two renderers).                   *)
(***************************************************************************)
EXTENDS Integers, Sequences, FiniteSets

VARIABLES
    flags,      \* Flags {lines, words, bytes, chars} handed to the core
    \* ---- count_reader on one stream
    input,      \* the whole byte sequence behind the reader
    pos,        \* bytes already handed out by reader.read
    chunks,     \* the n of every successful reader.read so far, in order
    counts,     \* count_reader's accumulator
    in_word,    \* count_reader's carried in-word state
    rpc,        \* "loop" | "done" (returned Ok(counts)) | "failed" (returned Err)
    \* ---- process_files
    files,      \* the input paths, in order
    fs,         \* path -> what opening and reading that path does
    task,       \* per index: the closure's position in count_file
    slot,       \* per index: the FileResult the closure returned
    finished,   \* indices in the order their closures returned
    results,    \* what collect() handed back
    fpc,        \* "par" | "collected"
    \* ---- print_files_results / print_stdin_results
    presults,   \* the results slice given to print_files_results
    pcounts,    \* the Counts given to print_stdin_results
    entry,      \* "files" | "stdin": which renderer main calls
    out,        \* what reached the writer
    ret         \* "call" | "ok" | "err"

vars == <<flags, input, pos, chunks, counts, in_word, rpc,
          files, fs, task, slot, finished, results, fpc,
          presults, pcounts, entry, out, ret>>

readerVars == <<input, pos, chunks, counts, in_word, rpc>>
filesVars  == <<files, fs, task, slot, finished, results, fpc>>
printVars  == <<presults, pcounts, entry, out, ret>>

----------------------------------------------------------------------------
(* Bounds *)

MaxLen == 3          \* longest stream fed to count_reader
MaxFiles == 2        \* most paths given to process_files
MaxResults == 2      \* most outcomes given to print_files_results

(* const MAX_WIDTH: usize = 7 *)
MAX_WIDTH == 7

(* let mut buf = [0u8; 512 * 1024] *)
BUF_SIZE == 512 * 1024

(* The bytes streams are built from: space, '\n', vertical tab, 'a', and   *)
(* the two bytes of U+00E9 (0xC3 0xA9).                                    *)
Bytes == {32, 10, 11, 97, 195, 169}

Min(a, b) == IF a < b THEN a ELSE b
Max(a, b) == IF a < b THEN b ELSE a

SeqsUpTo(S, n) == UNION {[1..k -> S] : k \in 0..n}

----------------------------------------------------------------------------
(* Flags and Counts *)

AllFlags == [lines : BOOLEAN, words : BOOLEAN, bytes : BOOLEAN, chars : BOOLEAN]

(* main: chars is on only on request; with nothing requested bytes, lines  *)
(* and words are switched on, so at least one field is always enabled.     *)
MainFlags == {f \in AllFlags : f.lines \/ f.words \/ f.bytes \/ f.chars}

ZeroCounts == [lines |-> 0, words |-> 0, bytes |-> 0, chars |-> 0]

----------------------------------------------------------------------------
(* count_reader *)

(* u8::is_ascii_whitespace: U+0020 SPACE, U+0009 TAB, U+000A LF,           *)
(* U+000C FORM FEED, U+000D CR.  U+000B VERTICAL TAB is not in the set.    *)
IsAsciiWhitespace(b) == b \in {32, 9, 10, 12, 13}

(* mutant: every whitespace byte counts as a line end *)
ScanByteLinesOnWhitespace(st, b) ==
    LET l == IF IsAsciiWhitespace(b) THEN st.counts.lines + 1 ELSE st.counts.lines
    IN  IF IsAsciiWhitespace(b)
        THEN [counts |-> [st.counts EXCEPT !.lines = l], in_word |-> FALSE]
        ELSE IF ~st.in_word
             THEN [counts |-> [st.counts EXCEPT !.lines = l, !.words = @ + 1],
                   in_word |-> TRUE]
             ELSE [counts |-> [st.counts EXCEPT !.lines = l], in_word |-> st.in_word]

(* One iteration of the while loop over buf[..n]. *)
ScanByte(st, b) ==
    LET l == IF b = 10 THEN st.counts.lines + 1 ELSE st.counts.lines
    IN  IF IsAsciiWhitespace(b)
        THEN [counts |-> [st.counts EXCEPT !.lines = l], in_word |-> FALSE]
        ELSE IF ~st.in_word
             THEN [counts |-> [st.counts EXCEPT !.lines = l, !.words = @ + 1],
                   in_word |-> TRUE]
             ELSE [counts |-> [st.counts EXCEPT !.lines = l], in_word |-> st.in_word]

RECURSIVE ScanFrom(_, _, _)
ScanFrom(st, chunk, i) ==
    IF i > Len(chunk) THEN st ELSE ScanFrom(ScanByte(st, chunk[i]), chunk, i + 1)

(* let mut i = 0; while i < n { ... i += 1 } *)
ScanChunk(st, chunk) == ScanFrom(st, chunk, 1)

(* core::str::from_utf8 validation: the length a lead byte announces. *)
Utf8CharWidth(b) ==
    IF b < 128 THEN 1
    ELSE IF b >= 194 /\ b <= 223 THEN 2
    ELSE IF b >= 224 /\ b <= 239 THEN 3
    ELSE IF b >= 240 /\ b <= 244 THEN 4
    ELSE 0

IsCont(b) == b >= 128 /\ b <= 191

(* The range the second byte of a sequence must lie in, per lead byte. *)
SecondByteOk(lead, b) ==
    IF lead = 224 THEN b >= 160 /\ b <= 191
    ELSE IF lead = 237 THEN b >= 128 /\ b <= 159
    ELSE IF lead = 240 THEN b >= 144 /\ b <= 191
    ELSE IF lead = 244 THEN b >= 128 /\ b <= 143
    ELSE IsCont(b)

(* Number of scalars decoded from position i on, or -1 when the bytes from *)
(* i on are not valid UTF-8 (truncated sequences included).                *)
RECURSIVE Utf8Decode(_, _)
Utf8Decode(chunk, i) ==
    IF i > Len(chunk) THEN 0
    ELSE LET w == Utf8CharWidth(chunk[i])
         IN  IF w = 0 \/ i + w - 1 > Len(chunk) THEN -1
             ELSE IF w >= 2 /\ ~SecondByteOk(chunk[i], chunk[i + 1]) THEN -1
             ELSE IF \E k \in 2..(w - 1) : ~IsCont(chunk[i + k]) THEN -1
             ELSE LET rest == Utf8Decode(chunk, i + w)
                  IN  IF rest = -1 THEN -1 ELSE rest + 1

(* std::str::from_utf8(&buf[..n]).unwrap_or_default().chars().count() *)
Utf8CharCount(chunk) ==
    LET n == Utf8Decode(chunk, 1) IN IF n = -1 THEN 0 ELSE n

(* mutant: in_word is a per-chunk local, reset on every read *)
ReadStepResetsInWord(c, w, chunk, fl) ==
    LET a == [counts |-> [c EXCEPT !.bytes = @ + Len(chunk)], in_word |-> FALSE]
        s == ScanChunk(a, chunk)
    IN  IF fl.chars
        THEN [s EXCEPT !.counts.chars = @ + Utf8CharCount(chunk)]
        ELSE s

(* mutant: the byte total is kept only when the bytes option is on *)
ReadStepBytesIfEnabled(c, w, chunk, fl) ==
    LET a == [counts |-> IF fl.bytes THEN [c EXCEPT !.bytes = @ + Len(chunk)] ELSE c,
              in_word |-> w]
        s == ScanChunk(a, chunk)
    IN  IF fl.chars
        THEN [s EXCEPT !.counts.chars = @ + Utf8CharCount(chunk)]
        ELSE s

(* The loop body after a read of n = Len(chunk) > 0 bytes: counts.bytes += n,  *)
(* the byte scan, and the per-chunk character count when flags.chars.          *)
ReadStep(c, w, chunk, fl) ==
    LET a == [counts |-> [c EXCEPT !.bytes = @ + Len(chunk)], in_word |-> w]
        s == ScanChunk(a, chunk)
    IN  IF fl.chars
        THEN [s EXCEPT !.counts.chars = @ + Utf8CharCount(chunk)]
        ELSE s

InitReader ==
    /\ flags \in MainFlags
    /\ input \in SeqsUpTo(Bytes, MaxLen)
    /\ pos = 0
    /\ chunks = << >>
    /\ counts = ZeroCounts
    /\ in_word = FALSE
    /\ rpc = "loop"

(* reader.read(&mut buf) returned n > 0: any n up to what is left and the  *)
(* buffer size is possible.                                                *)
Read(n) ==
    /\ rpc = "loop"
    /\ n >= 1 /\ n <= Min(Len(input) - pos, BUF_SIZE)
    /\ LET s == ReadStep(counts, in_word, SubSeq(input, pos + 1, pos + n), flags)
       IN  /\ counts' = s.counts
           /\ in_word' = s.in_word
    /\ pos' = pos + n
    /\ chunks' = Append(chunks, n)
    /\ UNCHANGED <<flags, input, rpc, filesVars, printVars>>

(* n == 0: break; Ok(counts) *)
ReadEof ==
    /\ rpc = "loop"
    /\ pos = Len(input)
    /\ rpc' = "done"
    /\ UNCHANGED <<flags, input, pos, chunks, counts, in_word, filesVars, printVars>>

(* reader.read(..)? returned Err: the call fails, the accumulator is dropped *)
ReadErr ==
    /\ rpc = "loop"
    /\ rpc' = "failed"
    /\ counts' = ZeroCounts
    /\ in_word' = FALSE
    /\ UNCHANGED <<flags, input, pos, chunks, filesVars, printVars>>

----------------------------------------------------------------------------
(* count_file and process_files *)

Paths == {"a", "b"}

(* What the files hold: nothing, "a ", "a\na". *)
FileContents == {<< >>, <<97, 32>>, <<97, 10, 97>>}

(* A path either cannot be opened, or opens and holds content; failAt = k  *)
(* makes the read at offset k fail after k bytes were read successfully    *)
(* (failAt = -1: the file reads to its end).                               *)
FileKinds ==
    {[exists |-> FALSE, content |-> << >>, failAt |-> -1]}
    \cup UNION {{[exists |-> TRUE, content |-> c, failAt |-> k] : k \in -1..Len(c)} :
                   c \in FileContents}

OpenErrMsg == "No such file or directory (os error 2)"
ReadErrMsg == "Input/output error (os error 5)"

(* enum FileResult { Ok(PathBuf, Counts), Err(PathBuf, String) } *)
FileOk(path, c)    == [tag |-> "Ok", path |-> path, counts |-> c]
FileErr(path, msg) == [tag |-> "Err", path |-> path, msg |-> msg]
NoResult           == [tag |-> "None"]

QueuedTask == [pc |-> "queued", pos |-> 0, counts |-> ZeroCounts, in_word |-> FALSE]

(* mutant: a failed read ends the loop and the counts so far are reported *)
ReadFailedKeepsCounts(path, c, msg) == FileOk(path, c)

(* count_reader's `?` drops the accumulator; the closure of process_files  *)
(* maps Err(e) to FileResult::Err(path, e.to_string()).                    *)
ReadFailed(path, c, msg) == FileErr(path, msg)

(* mutant: results are gathered in the order the closures returned *)
CollectedInCompletionOrder(sl, fin) == [k \in 1..Len(fin) |-> sl[fin[k]]]

(* par_iter().map(..).collect::<Vec<_>>(): the i-th element is the i-th    *)
(* closure's value, whatever order the closures ran in.                    *)
Collected(sl, fin) == [i \in 1..Len(sl) |-> sl[i]]

(* The option sets process_files is run with: main's default, and the     *)
(* default with chars requested as well.                                   *)
FilesFlags ==
    {[lines |-> TRUE, words |-> TRUE, bytes |-> TRUE, chars |-> m] : m \in BOOLEAN}

InitFiles ==
    /\ flags \in FilesFlags
    /\ files \in SeqsUpTo(Paths, MaxFiles) \ {<< >>}
    /\ fs \in [Paths -> FileKinds]
    /\ task = [i \in 1..Len(files) |-> QueuedTask]
    /\ slot = [i \in 1..Len(files) |-> NoResult]
    /\ finished = << >>
    /\ results = << >>
    /\ fpc = "par"

Return(i, r) ==
    /\ slot' = [slot EXCEPT ![i] = r]
    /\ finished' = Append(finished, i)

(* File::open(path)? *)
Open(i) ==
    /\ fpc = "par"
    /\ task[i].pc = "queued"
    /\ IF fs[files[i]].exists
       THEN /\ task' = [task EXCEPT ![i].pc = "reading"]
            /\ UNCHANGED <<slot, finished>>
       ELSE /\ task' = [task EXCEPT ![i].pc = "returned"]
            /\ Return(i, FileErr(files[i], OpenErrMsg))
    /\ UNCHANGED <<flags, files, fs, results, fpc, readerVars, printVars>>

(* One successful read of the i-th path's count_reader loop. *)
TaskRead(i, n) ==
    /\ fpc = "par"
    /\ task[i].pc = "reading"
    /\ LET d == fs[files[i]]
           limit == IF d.failAt = -1 THEN Len(d.content) ELSE d.failAt
           t == task[i]
       IN  /\ n >= 1 /\ n <= Min(limit - t.pos, BUF_SIZE)
           /\ LET s == ReadStep(t.counts, t.in_word,
                                SubSeq(d.content, t.pos + 1, t.pos + n), flags)
              IN  task' = [task EXCEPT ![i] = [pc |-> "reading", pos |-> t.pos + n,
                                               counts |-> s.counts,
                                               in_word |-> s.in_word]]
    /\ UNCHANGED <<flags, files, fs, slot, finished, results, fpc,
                   readerVars, printVars>>

(* n == 0 at the end of the file: Ok(counts) => FileResult::Ok(path, counts) *)
TaskEof(i) ==
    /\ fpc = "par"
    /\ task[i].pc = "reading"
    /\ fs[files[i]].failAt = -1
    /\ task[i].pos = Len(fs[files[i]].content)
    /\ task' = [task EXCEPT ![i].pc = "returned"]
    /\ Return(i, FileOk(files[i], task[i].counts))
    /\ UNCHANGED <<flags, files, fs, results, fpc, readerVars, printVars>>

(* The read at the failing offset returns Err. *)
TaskReadErr(i) ==
    /\ fpc = "par"
    /\ task[i].pc = "reading"
    /\ fs[files[i]].failAt = task[i].pos
    /\ task' = [task EXCEPT ![i].pc = "returned"]
    /\ Return(i, ReadFailed(files[i], task[i].counts, ReadErrMsg))
    /\ UNCHANGED <<flags, files, fs, results, fpc, readerVars, printVars>>

(* collect() returns once every closure has returned. *)
Collect ==
    /\ fpc = "par"
    /\ \A i \in 1..Len(files) : task[i].pc = "returned"
    /\ results' = Collected(slot, finished)
    /\ fpc' = "collected"
    /\ UNCHANGED <<flags, files, fs, task, slot, finished, readerVars, printVars>>

----------------------------------------------------------------------------
(* Rendering.  Text is a sequence of one-character strings; a path's       *)
(* display() and an error message are single opaque elements.              *)

DigitChar(d) == <<"0", "1", "2", "3", "4", "5", "6", "7", "8", "9">>[d + 1]

(* usize::to_string *)
RECURSIVE ToString(_)
ToString(n) ==
    IF n < 10 THEN <<DigitChar(n)>>
    ELSE ToString(n \div 10) \o <<DigitChar(n % 10)>>

Spaces(n) == [i \in 1..n |-> " "]

(* write!(writer, "{:>width$} ", value): width is a minimum, a longer      *)
(* value is written in full.                                               *)
PrintField(value, width) ==
    LET s == ToString(value)
    IN  Spaces(Max(width - Len(s), 0)) \o s \o <<" ">>

(* The print_field! calls of one row, in the order lines, words, bytes,    *)
(* chars; a disabled field writes nothing.                                 *)
FieldWrites(c, fl, w) ==
    (IF fl.lines THEN <<PrintField(c.lines, w.lines)>> ELSE << >>)
    \o (IF fl.words THEN <<PrintField(c.words, w.words)>> ELSE << >>)
    \o (IF fl.bytes THEN <<PrintField(c.bytes, w.bytes)>> ELSE << >>)
    \o (IF fl.chars THEN <<PrintField(c.chars, w.chars)>> ELSE << >>)

(* max_lines .. max_chars after the first loop over results[1..i] *)
RECURSIVE Maxes(_, _, _)
Maxes(rs, fl, i) ==
    IF i = 0 THEN ZeroCounts
    ELSE LET m == Maxes(rs, fl, i - 1)
             r == rs[i]
         IN  IF r.tag = "Ok"
             THEN [lines |-> IF fl.lines THEN Max(m.lines, r.counts.lines) ELSE m.lines,
                   words |-> IF fl.words THEN Max(m.words, r.counts.words) ELSE m.words,
                   bytes |-> IF fl.bytes THEN Max(m.bytes, r.counts.bytes) ELSE m.bytes,
                   chars |-> IF fl.chars THEN Max(m.chars, r.counts.chars) ELSE m.chars]
             ELSE m

(* mutant: the words total accumulates the lines field *)
RECURSIVE TotalsWordsFromLines(_, _)
TotalsWordsFromLines(rs, i) ==
    IF i = 0 THEN ZeroCounts
    ELSE LET t == TotalsWordsFromLines(rs, i - 1)
             r == rs[i]
         IN  IF r.tag = "Ok"
             THEN [lines |-> t.lines + r.counts.lines,
                   words |-> t.words + r.counts.lines,
                   bytes |-> t.bytes + r.counts.bytes,
                   chars |-> t.chars + r.counts.chars]
             ELSE t

(* total after the first loop over results[1..i] *)
RECURSIVE Totals(_, _)
Totals(rs, i) ==
    IF i = 0 THEN ZeroCounts
    ELSE LET t == Totals(rs, i - 1)
             r == rs[i]
         IN  IF r.tag = "Ok"
             THEN [lines |-> t.lines + r.counts.lines,
                   words |-> t.words + r.counts.words,
                   bytes |-> t.bytes + r.counts.bytes,
                   chars |-> t.chars + r.counts.chars]
             ELSE t

(* max.to_string().len().max(MAX_WIDTH) *)
Width(v) == Max(Len(ToString(v)), MAX_WIDTH)

Widths(m) == [lines |-> Width(m.lines), words |-> Width(m.words),
              bytes |-> Width(m.bytes), chars |-> Width(m.chars)]

(* The writes of the second loop for one result. *)
RowWrites(r, fl, w) ==
    IF r.tag = "Err"
    THEN << <<"r", "s", "w", "c", ":", " ", r.path, ":", " ", r.msg, " ", "\n">> >>
    ELSE FieldWrites(r.counts, fl, w) \o << <<r.path, "\n">> >>

RECURSIVE RowsWrites(_, _, _, _)
RowsWrites(rs, fl, w, i) ==
    IF i = 0 THEN << >>
    ELSE RowsWrites(rs, fl, w, i - 1) \o RowWrites(rs[i], fl, w)

(* mutant: the total row is written whenever some result succeeded *)
TotalWritesIfAnyOk(rs, fl, w) ==
    IF \E i \in 1..Len(rs) : rs[i].tag = "Ok"
    THEN FieldWrites(Totals(rs, Len(rs)), fl, w) \o << <<"t", "o", "t", "a", "l", "\n">> >>
    ELSE << >>

(* if results.len() > 1 { ... writeln!(writer, "total") } *)
TotalWrites(rs, fl, w) ==
    IF Len(rs) > 1
    THEN FieldWrites(Totals(rs, Len(rs)), fl, w) \o << <<"t", "o", "t", "a", "l", "\n">> >>
    ELSE << >>

(* Every write!/writeln! of print_files_results, in order. *)
FilesWrites(rs, fl) ==
    LET w == Widths(Maxes(rs, fl, Len(rs)))
    IN  RowsWrites(rs, fl, w, Len(rs)) \o TotalWrites(rs, fl, w)

(* Every write!/writeln! of print_stdin_results, in order. *)
StdinWrites(c, fl) ==
    FieldWrites(c, fl, Widths(c)) \o << <<"-", "\n">> >>

RECURSIVE Concat(_, _)
Concat(ws, k) == IF k = 0 THEN << >> ELSE Concat(ws, k - 1) \o ws[k]

(* Counts a renderer is given: chars is 0 unless the option is on. *)
CountSamples(fl) ==
    {[c EXCEPT !.chars = IF fl.chars THEN @ ELSE 0] : c \in
        {ZeroCounts,
         [lines |-> 5, words |-> 20, bytes |-> 120, chars |-> 118],
         [lines |-> 1000000, words |-> 5000000, bytes |-> 9999999, chars |-> 9999990],
         [lines |-> 2143500, words |-> 17449200, bytes |-> 102657000,
          chars |-> 102000000]}}

Outcomes(fl) ==
    {FileOk(p, c) : p \in Paths, c \in CountSamples(fl)}
    \cup {FileErr(p, OpenErrMsg) : p \in Paths}

InitPrint ==
    /\ flags \in MainFlags
    /\ entry \in {"files", "stdin"}
    /\ IF entry = "files"
       THEN /\ presults \in SeqsUpTo(Outcomes(flags), MaxResults) \ {<< >>}
            /\ pcounts = ZeroCounts
       ELSE /\ presults = << >>
            /\ pcounts \in CountSamples(flags)
    /\ out = << >>
    /\ ret = "call"

(* The writer takes the first k writes; when it fails on write k + 1 the   *)
(* `?` returns the error and nothing more is written.                      *)
Emit(ws, k) ==
    /\ out' = Concat(ws, k)
    /\ ret' = IF k = Len(ws) THEN "ok" ELSE "err"

PrintFilesResults ==
    /\ ret = "call"
    /\ entry = "files"
    /\ LET ws == FilesWrites(presults, flags)
       IN  \E k \in 0..Len(ws) : Emit(ws, k)
    /\ UNCHANGED <<flags, presults, pcounts, entry, readerVars, filesVars>>

PrintStdinResults ==
    /\ ret = "call"
    /\ entry = "stdin"
    /\ LET ws == StdinWrites(pcounts, flags)
       IN  \E k \in 0..Len(ws) : Emit(ws, k)
    /\ UNCHANGED <<flags, presults, pcounts, entry, readerVars, filesVars>>

----------------------------------------------------------------------------
(* Specifications *)

IdleReader ==
    /\ input = << >> /\ pos = 0 /\ chunks = << >> /\ counts = ZeroCounts /\ in_word = FALSE
    /\ rpc = "idle"

IdleFiles ==
    /\ files = << >> /\ fs = << >> /\ task = << >> /\ slot = << >>
    /\ finished = << >> /\ results = << >> /\ fpc = "idle"

IdlePrint ==
    /\ presults = << >> /\ pcounts = ZeroCounts /\ entry = "none"
    /\ out = << >> /\ ret = "idle"

NextReader == (\E n \in 1..MaxLen : Read(n)) \/ ReadEof \/ ReadErr

NextFiles ==
    \/ \E i \in 1..Len(files) : Open(i)
    \/ \E i \in 1..Len(files) : \E n \in 1..Len(fs[files[i]].content) : TaskRead(i, n)
    \/ \E i \in 1..Len(files) : TaskEof(i)
    \/ \E i \in 1..Len(files) : TaskReadErr(i)
    \/ Collect

NextPrint == PrintFilesResults \/ PrintStdinResults

StartReader == InitReader /\ IdleFiles /\ IdlePrint
StartFiles  == InitFiles /\ IdleReader /\ IdlePrint
StartPrint  == InitPrint /\ IdleReader /\ IdleFiles

SpecReader == StartReader /\ [][NextReader]_vars
SpecFiles  == StartFiles /\ [][NextFiles]_vars
SpecPrint  == StartPrint /\ [][NextPrint]_vars

----------------------------------------------------------------------------
(* Reference counts of a whole byte sequence, independent of chunking.     *)

(* The bytes count_reader's scan treats as whitespace. *)
ScannerWhitespace == {b \in 0..255 : IsAsciiWhitespace(b)}

(* space, tab, newline, carriage return, vertical tab, form feed *)
SixWhitespace == {32, 9, 10, 13, 11, 12}

(* Number of maximal runs of bytes outside W. *)
WordRuns(S, W) ==
    Cardinality({i \in 1..Len(S) : S[i] \notin W /\ (i = 1 \/ S[i - 1] \in W)})

NewlineCount(S) == Cardinality({i \in 1..Len(S) : S[i] = 10})

IsValidUtf8(S) == Utf8Decode(S, 1) # -1

(* In valid UTF-8 every scalar has exactly one byte that is no continuation. *)
ScalarCount(S) == Cardinality({i \in 1..Len(S) : ~IsCont(S[i])})

(* Offsets at which one read ended and the next began. *)
RECURSIVE SumTo(_, _)
SumTo(q, k) == IF k = 0 THEN 0 ELSE SumTo(q, k - 1) + q[k]
Boundaries == {SumTo(chunks, k) : k \in 1..(Len(chunks) - 1)}

----------------------------------------------------------------------------
(* Claims about count_reader (SpecReader) *)

(* C1: whatever the chunking, when count_reader returns Ok its words equal *)
(* the number of maximal runs of non-whitespace bytes of the whole input;  *)
(* a word straddling a chunk boundary is counted once.  Whitespace here is *)
(* the class the scanner uses (C5 is about which bytes that is).           *)
C1_WordsChunkInvariant ==
    rpc = "done" => counts.words = WordRuns(input, ScannerWhitespace)

(* A finished run in which a read ended inside a word. *)
C1_Witness ==
    /\ rpc = "done"
    /\ \E b \in Boundaries :
          input[b] \notin ScannerWhitespace /\ input[b + 1] \notin ScannerWhitespace

(* C2: with chars enabled and valid UTF-8 input, chars equals the number   *)
(* of Unicode scalar values of the whole input, whatever the chunking.     *)
C2_CharsChunkInvariant ==
    (rpc = "done" /\ flags.chars /\ IsValidUtf8(input))
        => counts.chars = ScalarCount(input)

(* C3: bytes equals the length of the input, for every option set. *)
C3_BytesEqualLength ==
    rpc = "done" => counts.bytes = Len(input)

(* A finished multi-chunk run with the bytes option off. *)
C3_Witness ==
    rpc = "done" /\ ~flags.bytes /\ Len(chunks) >= 2 /\ counts.bytes = MaxLen

(* C4: lines equals the number of '\n' bytes of the input; an unterminated *)
(* last line is not counted.                                               *)
C4_LinesEqualNewlines ==
    rpc = "done" => counts.lines = NewlineCount(input)

(* A finished multi-chunk run over "\n", other whitespace, and an          *)
(* unterminated last line.                                                 *)
C4_Witness ==
    /\ rpc = "done" /\ Len(chunks) >= 2
    /\ counts.lines = 1
    /\ input[Len(input)] = 97
    /\ \E i \in 1..Len(input) : input[i] = 32

(* C5: the bytes that end a word are exactly the six ASCII whitespace      *)
(* bytes: after a byte is scanned the in-word state is clear iff the byte  *)
(* is one of the six, and words counts the runs they delimit.              *)
C5_SixWhitespaceBytes ==
    /\ (rpc = "loop" /\ pos > 0) => (in_word <=> input[pos] \notin SixWhitespace)
    /\ rpc = "done" => counts.words = WordRuns(input, SixWhitespace)

----------------------------------------------------------------------------
(* Claims about process_files (SpecFiles) *)

(* What the file system makes of one path on its own. *)
OpensAndReads(p) == fs[p].exists /\ fs[p].failAt = -1

Alone(p) ==
    IF ~fs[p].exists THEN FileErr(p, OpenErrMsg)
    ELSE IF fs[p].failAt # -1 THEN FileErr(p, ReadErrMsg)
    ELSE LET c == fs[p].content
         IN  FileOk(p, [lines |-> NewlineCount(c),
                        words |-> WordRuns(c, ScannerWhitespace),
                        bytes |-> Len(c),
                        chars |-> IF flags.chars THEN ScalarCount(c) ELSE 0])

(* C6: process_files returns one outcome per input path, the i-th outcome  *)
(* carrying the i-th path, and the sequence is the one the file system     *)
(* determines, whatever order the per-file closures ran and returned in.   *)
C6_OutcomesInInputOrder ==
    fpc = "collected" =>
        /\ Len(results) = Len(files)
        /\ \A i \in 1..Len(files) :
              /\ results[i].tag \in {"Ok", "Err"}
              /\ results[i].path = files[i]
        /\ results = [i \in 1..Len(files) |-> Alone(files[i])]

(* Collected after the closure of the second path returned before the     *)
(* closure of the first, the two paths and their outcomes differing.       *)
C6_Witness ==
    /\ fpc = "collected"
    /\ Len(files) >= 2
    /\ finished[1] = 2
    /\ files[1] # files[2]
    /\ results[1].tag # results[2].tag

(* C10: a path whose open fails, or whose read fails after some chunks     *)
(* were read, yields Err(path, message) carrying no counts, and every      *)
(* other path gets the outcome it gets on its own.                         *)
C10_FailureIsolated ==
    fpc = "collected" =>
        \A i \in 1..Len(files) :
            IF OpensAndReads(files[i])
            THEN results[i] = Alone(files[i]) /\ results[i].tag = "Ok"
            ELSE /\ DOMAIN results[i] = {"tag", "path", "msg"}
                 /\ results[i].tag = "Err"
                 /\ results[i].path = files[i]
                 /\ results[i].msg =
                        (IF fs[files[i]].exists THEN ReadErrMsg ELSE OpenErrMsg)

(* Collected with a path whose read failed after bytes had been counted,   *)
(* returned before a path that succeeded with non-zero counts.             *)
C10_Witness ==
    /\ fpc = "collected"
    /\ \E i, j \in 1..Len(files) :
          /\ fs[files[i]].exists /\ fs[files[i]].failAt >= 2
          /\ task[i].counts.words >= 1
          /\ results[i].tag = "Err"
          /\ results[j].tag = "Ok" /\ results[j].counts.bytes > 0
          /\ finished[1] = i

----------------------------------------------------------------------------
(* Reading the written text back: lines, blank-separated tokens, numbers.  *)

RECURSIVE SplitOn(_, _, _, _)
SplitOn(t, sep, i, cur) ==
    IF i > Len(t) THEN (IF cur = << >> THEN << >> ELSE <<cur>>)
    ELSE IF t[i] = sep THEN <<cur>> \o SplitOn(t, sep, i + 1, << >>)
    ELSE SplitOn(t, sep, i + 1, Append(cur, t[i]))

TextLines(t) == SplitOn(t, "\n", 1, << >>)

Tokens(line) == SelectSeq(SplitOn(line, " ", 1, << >>), LAMBDA tok : tok # << >>)

DecimalDigits == {"0", "1", "2", "3", "4", "5", "6", "7", "8", "9"}

IsNumber(tok) == tok # << >> /\ \A i \in 1..Len(tok) : tok[i] \in DecimalDigits

DigitValue(ch) ==
    CASE ch = "0" -> 0 [] ch = "1" -> 1 [] ch = "2" -> 2 [] ch = "3" -> 3
      [] ch = "4" -> 4 [] ch = "5" -> 5 [] ch = "6" -> 6 [] ch = "7" -> 7
      [] ch = "8" -> 8 [] ch = "9" -> 9

RECURSIVE ParseNat(_, _)
ParseNat(tok, k) == IF k = 0 THEN 0 ELSE 10 * ParseNat(tok, k - 1) + DigitValue(tok[k])

(* The numbers of a line, in order, and its last token. *)
Numbers(line) ==
    LET nums == SelectSeq(Tokens(line), IsNumber)
    IN  [k \in 1..Len(nums) |-> ParseNat(nums[k], Len(nums[k]))]

Label(line) == LET ts == Tokens(line) IN ts[Len(ts)]

TotalLabel == <<"t", "o", "t", "a", "l">>

IsTotalRow(line) == Tokens(line) # << >> /\ Label(line) = TotalLabel

(* The enabled fields of c in the printed order. *)
Enabled(c, fl) ==
    (IF fl.lines THEN <<c.lines>> ELSE << >>) \o (IF fl.words THEN <<c.words>> ELSE << >>)
    \o (IF fl.bytes THEN <<c.bytes>> ELSE << >>) \o (IF fl.chars THEN <<c.chars>> ELSE << >>)

OkIndices(rs) == {i \in 1..Len(rs) : rs[i].tag = "Ok"}

RECURSIVE SetSum(_, _)
SetSum(f, I) ==
    IF I = {} THEN 0 ELSE LET i == CHOOSE x \in I : TRUE IN f[i] + SetSum(f, I \ {i})

(* Field-wise sum over the Ok outcomes. *)
SumOfOk(rs) ==
    LET I == OkIndices(rs)
    IN  [lines |-> SetSum([i \in I |-> rs[i].counts.lines], I),
         words |-> SetSum([i \in I |-> rs[i].counts.words], I),
         bytes |-> SetSum([i \in I |-> rs[i].counts.bytes], I),
         chars |-> SetSum([i \in I |-> rs[i].counts.chars], I)]

SetMax(f, I) == IF I = {} THEN 0 ELSE CHOOSE m \in {f[i] : i \in I} : \A i \in I : f[i] <= m

(* Field-wise largest value over the Ok outcomes. *)
MaxOfOk(rs) ==
    LET I == OkIndices(rs)
    IN  [lines |-> SetMax([i \in I |-> rs[i].counts.lines], I),
         words |-> SetMax([i \in I |-> rs[i].counts.words], I),
         bytes |-> SetMax([i \in I |-> rs[i].counts.bytes], I),
         chars |-> SetMax([i \in I |-> rs[i].counts.chars], I)]

(* Number of decimal digits of v < 10^9. *)
NumDigits(v) == CHOOSE k \in 1..9 : v < 10 ^ k /\ (k = 1 \/ v >= 10 ^ (k - 1))

RECURSIVE SeqSum(_, _)
SeqSum(q, k) == IF k = 0 THEN 0 ELSE SeqSum(q, k - 1) + q[k]

----------------------------------------------------------------------------
(* Claims about the renderers (SpecPrint); each is about a call that       *)
(* returned Ok(()), i.e. whose writer took every write.                    *)

(* C7: the numbers printed in the total row are the field-wise sums of the *)
(* enabled fields over the Ok outcomes; Err outcomes add nothing.          *)
C7_TotalIsSumOfOk ==
    (ret = "ok" /\ entry = "files" /\ Len(presults) > 1) =>
        LET ls == TextLines(out)
        IN  Numbers(ls[Len(ls)]) = Enabled(SumOfOk(presults), flags)

(* A finished call over an Err and an Ok outcome with non-zero counts,     *)
(* lines and words both printed.                                           *)
C7_Witness ==
    /\ ret = "ok" /\ entry = "files" /\ Len(presults) > 1
    /\ flags.lines /\ flags.words
    /\ \E i, j \in 1..Len(presults) :
          /\ presults[i].tag = "Err"
          /\ presults[j].tag = "Ok" /\ presults[j].counts.words > presults[j].counts.lines

(* C8: print_files_results writes a total row, as its last line and        *)
(* nowhere else, iff it is given more than one outcome, whatever their     *)
(* tags; print_stdin_results writes one row, labelled "-", and no total.   *)
C8_TotalRowIffSeveral ==
    ret = "ok" =>
        LET ls == TextLines(out)
        IN  /\ entry = "files" =>
                /\ Len(ls) = Len(presults) + (IF Len(presults) > 1 THEN 1 ELSE 0)
                /\ (Len(presults) > 1) <=> IsTotalRow(ls[Len(ls)])
                /\ \A i \in 1..(Len(ls) - 1) : ~IsTotalRow(ls[i])
            /\ entry = "stdin" =>
                /\ Len(ls) = 1
                /\ Label(ls[1]) = <<"-">>
                /\ ~IsTotalRow(ls[1])

(* A finished call over several outcomes, every one of them an Err. *)
C8_Witness ==
    /\ ret = "ok" /\ entry = "files" /\ Len(presults) > 1
    /\ \A i \in 1..Len(presults) : presults[i].tag = "Err"

(* C9: every Ok row and the total row render each enabled field in exactly *)
(* max(digits of the field's largest value over the Ok outcomes, 7)        *)
(* columns plus the separating blank, so all count rows are equally wide.  *)
C9_RowsShareWidths ==
    (ret = "ok" /\ entry = "files") =>
        LET ls == TextLines(out)
            m == MaxOfOk(presults)
            w == Enabled([lines |-> Max(NumDigits(m.lines), MAX_WIDTH),
                          words |-> Max(NumDigits(m.words), MAX_WIDTH),
                          bytes |-> Max(NumDigits(m.bytes), MAX_WIDTH),
                          chars |-> Max(NumDigits(m.chars), MAX_WIDTH)], flags)
            cols == SeqSum(w, Len(w)) + Len(w)
        IN  /\ \A i \in OkIndices(presults) :
                  /\ Len(ls[i]) = cols + 1
                  /\ Numbers(ls[i]) = Enabled(presults[i].counts, flags)
            /\ Len(presults) > 1 =>
                  /\ Len(ls[Len(ls)]) = cols + Len(TotalLabel)
                  /\ Numbers(ls[Len(ls)]) = Enabled(SumOfOk(presults), flags)

====
